---- MODULE Spec2Model ----
(***************************************************************************)
(* Model of the Home component of src/app/page.tsx: the form, the staged   *)
(* loading animation driven by timers, the delayed call to the analysis    *)
(* webhook and the handling of its response.                               *)
(*                                                                         *)
(* Time is counted in milliseconds and advances in steps of TickMs, the    *)
(* period of the progress interval, or straight to the next timer when     *)
(* that is further away; every delay in the source is a multiple of        *)
(* TickMs.  A timer is held as the time left until it is due and its       *)
(* callback runs when that reaches 0; time does not pass over a due timer. *)
(* Timers due at the same instant run in either order.                     *)
(*                                                                         *)
(* The state variables of the component hold the value last passed to     *)
(* their setter.  After the component unmounts no event handler and no     *)
(* effect runs, but callbacks already scheduled with the host still do.    *)
(***************************************************************************)
EXTENDS Integers, Sequences, FiniteSets, TLC

\* ---------------------------------------------------------------- bounds
\* Number of submissions accepted in one behaviour.
MaxSubmissions == 2

\* Longest time, in steps of TickMs, the webhook takes to settle a request.
MaxLatency == 2

\* ------------------------------------------------------------- constants
Null == "null"
Undefined == "undefined"
Unparsable == "unparsable"

\* Values typed into an input; "" is the empty field.
FieldValues == {"", "a"}

\* JSON reports the webhook can answer with.
Reports == {"r1", "r2"}

ValidationMessage == "Please provide either a PDF deck link or a website URL"

FailureMessage == "Failed to analyze the startup deck. Please try again."

\* Period of the progress interval.
TickMs == 100

\* Delay of the timeout that handleSubmit schedules before the call.
SubmitDelay == 40000

stageDurations == <<5000, 7000, 6000, 8000, 7000, 7000>>

RECURSIVE SumTo(_, _)
SumTo(s, n) == IF n = 0 THEN 0 ELSE s[n] + SumTo(s, n - 1)

\* stageDurations.reduce((sum, duration) => sum + duration, 0)
totalDuration == SumTo(stageDurations, Len(stageDurations))

\* The captions; index i of the source is position i + 1 here.
analysisStages ==
  << "Gathering information", "Analyzing business model", "Evaluating team",
     "Measuring traction", "Identifying differentiators", "Finalizing analysis" >>

\* loadingProgress is the fraction loadingProgress / ProgressDenominator, a
\* percentage: the step 100 / (totalDuration / 100) is then the integer 100.
ProgressDenominator == totalDuration \div 100

Min(a, b) == IF a < b THEN a ELSE b

VARIABLES
  formData,         \* [pdfDeckLink, website]
  isLoading,
  error,            \* Null or a message
  result,           \* Null or a report
  loadingStage,
  loadingProgress,  \* numerator over ProgressDenominator
  mounted,          \* the component is mounted
  progressInterval, \* {} or {time left until the next callback}
  stageIntervals,   \* pending stage timeouts [index, due]
  submitTimeouts,   \* pending timeouts of handleSubmit [id, due, pdfDeckLink, website]
  requests,         \* fetches in flight [id, body, sentAt, age]
  nAccepted,        \* history: submissions accepted
  sentLog,          \* history: bodies of the requests sent, in order
  elapsed,          \* history: ms since the last submission was accepted
  ticks,            \* history: progress callbacks run since then
  lastSuccess,      \* history: report of the most recent successful call
  lastOp            \* history: the operation that ran last

vars == << formData, isLoading, error, result, loadingStage, loadingProgress,
           mounted, progressInterval, stageIntervals, submitTimeouts, requests,
           nAccepted, sentLog, elapsed, ticks, lastSuccess, lastOp >>

\* ------------------------------------------------------------ the effect
\* newProgress = prev + 100 / (totalDuration / 100); Math.min(newProgress, 100)
ProgressStep_NoClamp(prev) == prev + 100

ProgressStep(prev) == Min(prev + 100, 100 * ProgressDenominator)

\* elapsedTime after the forEach has reached source index `index` (1..5):
\* the sum of stageDurations[0 .. index - 1].
StageDelay_OffByOne(index) == SumTo(stageDurations, index + 1) - stageDurations[1]

StageDelay(index) == SumTo(stageDurations, index)

\* The timeouts the forEach schedules: one per index except index 0.
StageTimeouts ==
  { [index |-> i, due |-> StageDelay(i)] : i \in 1 .. (Len(stageDurations) - 1) }

\* useEffect(..., [isLoading]) after a render in which isLoading went from
\* `prev` to `next`: the cleanup of the previous run, then the body.
RunEffect_NoCleanup(prev, next) ==
  IF prev = next
  THEN UNCHANGED << loadingStage, loadingProgress, progressInterval, stageIntervals >>
  ELSE IF ~next
  THEN /\ loadingStage' = 0
       /\ loadingProgress' = 0
       /\ UNCHANGED << progressInterval, stageIntervals >>
  ELSE /\ progressInterval' = {TickMs}
       /\ stageIntervals' = StageTimeouts
       /\ UNCHANGED << loadingStage, loadingProgress >>

RunEffect(prev, next) ==
  IF prev = next
  THEN UNCHANGED << loadingStage, loadingProgress, progressInterval, stageIntervals >>
  ELSE IF ~next
  THEN /\ progressInterval' = {}
       /\ stageIntervals' = {}
       /\ loadingStage' = 0
       /\ loadingProgress' = 0
  ELSE /\ progressInterval' = {TickMs}
       /\ stageIntervals' = StageTimeouts
       /\ UNCHANGED << loadingStage, loadingProgress >>

\* ------------------------------------------------------------ the form
\* Both inputs carry disabled={isLoading}.
InputsEnabled == mounted /\ ~isLoading

\* The submit button is rendered only in the branch where isLoading is false.
SubmitEnabled_Always == mounted

SubmitEnabled == mounted /\ ~isLoading

\* !formData.pdfDeckLink && !formData.website
IsEmptySubmission_Either(fd) == fd.pdfDeckLink = "" \/ fd.website = ""

IsEmptySubmission(fd) == fd.pdfDeckLink = "" /\ fd.website = ""

handleChange(name, value) ==
  /\ InputsEnabled
  /\ formData' = [formData EXCEPT ![name] = value]
  /\ formData' # formData
  /\ lastOp' = "handleChange"
  /\ UNCHANGED << isLoading, error, result, loadingStage, loadingProgress,
                  mounted, progressInterval, stageIntervals, submitTimeouts,
                  requests, nAccepted, sentLog, elapsed, ticks, lastSuccess >>

handleSubmit ==
  /\ SubmitEnabled
  /\ lastOp' = "handleSubmit"
  /\ IF IsEmptySubmission(formData)
     THEN /\ error' = ValidationMessage
          /\ UNCHANGED << isLoading, loadingStage, loadingProgress,
                          progressInterval, stageIntervals, submitTimeouts,
                          nAccepted, elapsed, ticks >>
     ELSE /\ nAccepted < MaxSubmissions
          /\ isLoading' = TRUE
          /\ error' = Null
          /\ submitTimeouts' = submitTimeouts \cup
               { [id |-> nAccepted + 1, due |-> SubmitDelay,
                  pdfDeckLink |-> formData.pdfDeckLink,
                  website |-> formData.website] }
          /\ RunEffect(isLoading, TRUE)
          /\ nAccepted' = nAccepted + 1
          /\ elapsed' = 0
          /\ ticks' = 0
  /\ UNCHANGED << formData, result, mounted, requests, sentLog, lastSuccess >>

\* ------------------------------------------------------------ the call
\* data = { pdfDeckLink: pdfDeckLink || undefined, website: website || undefined }
RequestData_KeepEmpty(pdfDeckLink, website) ==
  [pdfDeckLink |-> pdfDeckLink, website |-> website]

RequestData(pdfDeckLink, website) ==
  [pdfDeckLink |-> IF pdfDeckLink = "" THEN Undefined ELSE pdfDeckLink,
   website     |-> IF website = "" THEN Undefined ELSE website]

\* JSON.stringify leaves out the properties whose value is undefined.
JsonStringify(data) ==
  [k \in {f \in DOMAIN data : data[f] # Undefined} |-> data[k]]

\* What the webhook can do with a request: fetch rejects, or it resolves
\* with a status and a body that response.json() parses or fails to parse.
Responses ==
  { [kind |-> "networkError", ok |-> FALSE, json |-> Unparsable] } \cup
  { [kind |-> "response", ok |-> o, json |-> j] :
      o \in BOOLEAN, j \in Reports \cup {Unparsable} }

\* callEndpoint from the response on: throws or returns the parsed body.
CallEndpointOutcome_IgnoreStatus(response) ==
  IF response.kind = "networkError" THEN [threw |-> TRUE, value |-> Null]
  ELSE IF response.json = Unparsable THEN [threw |-> TRUE, value |-> Null]
  ELSE [threw |-> FALSE, value |-> response.json]

CallEndpointOutcome(response) ==
  IF response.kind = "networkError" THEN [threw |-> TRUE, value |-> Null]
  ELSE IF ~response.ok THEN [threw |-> TRUE, value |-> Null]
  ELSE IF response.json = Unparsable THEN [threw |-> TRUE, value |-> Null]
  ELSE [threw |-> FALSE, value |-> response.json]

\* setTimeout runs its callback once: the timeouts left after t has run.
AfterSubmitTimeout_Repeating(t) ==
  (submitTimeouts \ {t}) \cup { [t EXCEPT !.due = SubmitDelay] }

AfterSubmitTimeout(t) == submitTimeouts \ {t}

\* The callback of the timeout of handleSubmit, up to the await of fetch.
SubmitTimeoutFires(t) ==
  /\ t \in submitTimeouts
  /\ t.due = 0
  /\ submitTimeouts' = AfterSubmitTimeout(t)
  /\ LET body == JsonStringify(RequestData(t.pdfDeckLink, t.website))
     IN /\ requests' = requests \cup
             { [id |-> t.id, body |-> body, sentAt |-> elapsed, age |-> 0] }
        /\ sentLog' = Append(sentLog, body)
  /\ lastOp' = "submitTimeout"
  /\ UNCHANGED << formData, isLoading, error, result, loadingStage,
                  loadingProgress, mounted, progressInterval, stageIntervals,
                  nAccepted, elapsed, ticks, lastSuccess >>

\* What the catch branch does to result.
ResultAfterFailure_Cleared(prev) == Null

ResultAfterFailure(prev) == prev

\* The three ways a call fails: the network, the status, the body.
ResponseFailed(response) ==
  \/ response.kind = "networkError"
  \/ ~response.ok
  \/ response.json = Unparsable

\* finally { setIsLoading(false) }: isLoading after the callback, whether
\* the call threw or not.
LoadingAfterSettle_OnlyOnSuccess(threw) == threw

LoadingAfterSettle(threw) == FALSE

\* The rest of the callback: the fetch settles, then setResult or setError,
\* then setIsLoading(false), and the effect that follows the render.
FetchSettles(r, response) ==
  /\ r \in requests
  /\ requests' = requests \ {r}
  /\ LET out == CallEndpointOutcome(response)
     IN IF out.threw
        THEN /\ error' = FailureMessage
             /\ result' = ResultAfterFailure(result)
        ELSE /\ result' = out.value
             /\ error' = error
  /\ isLoading' = LoadingAfterSettle(CallEndpointOutcome(response).threw)
  /\ lastOp' = IF ResponseFailed(response) THEN "fetchFailed" ELSE "fetchSucceeded"
  /\ lastSuccess' = IF ResponseFailed(response) THEN lastSuccess ELSE response.json
  /\ IF mounted
     THEN RunEffect(isLoading, isLoading')
     ELSE UNCHANGED << loadingStage, loadingProgress, progressInterval, stageIntervals >>
  /\ UNCHANGED << formData, mounted, submitTimeouts, nAccepted, sentLog,
                  elapsed, ticks >>

\* ------------------------------------------------------------ the timers
\* The callback of setInterval(..., 100).
ProgressTick ==
  /\ progressInterval = {0}
  /\ loadingProgress' = ProgressStep(loadingProgress)
  /\ progressInterval' = {TickMs}
  /\ ticks' = ticks + 1
  /\ lastOp' = "progressTick"
  /\ UNCHANGED << formData, isLoading, error, result, loadingStage, mounted,
                  stageIntervals, submitTimeouts, requests, nAccepted, sentLog,
                  elapsed, lastSuccess >>

\* The callback of one stage timeout: setLoadingStage(index).
StageTimeoutFires(t) ==
  /\ t \in stageIntervals
  /\ t.due = 0
  /\ loadingStage' = t.index
  /\ stageIntervals' = stageIntervals \ {t}
  /\ lastOp' = "stageTimeout"
  /\ UNCHANGED << formData, isLoading, error, result, loadingProgress, mounted,
                  progressInterval, submitTimeouts, requests, nAccepted,
                  sentLog, elapsed, ticks, lastSuccess >>

\* The cleanup the effect returned, run when the component unmounts.  The
\* run of the effect with isLoading false returns no cleanup.
Unmount ==
  /\ mounted
  /\ mounted' = FALSE
  /\ IF isLoading
     THEN /\ progressInterval' = {}
          /\ stageIntervals' = {}
     ELSE UNCHANGED << progressInterval, stageIntervals >>
  /\ lastOp' = "unmount"
  /\ UNCHANGED << formData, isLoading, error, result, loadingStage,
                  loadingProgress, submitTimeouts, requests, nAccepted,
                  sentLog, elapsed, ticks, lastSuccess >>

\* The times left until the pending timers are due.
Dues ==
  progressInterval \cup { t.due : t \in stageIntervals }
                   \cup { t.due : t \in submitTimeouts }

\* How far time moves in one step: to the next timer that is due, and by
\* TickMs, in which the latency is counted, while a request is in flight.
TimeStep ==
  IF requests = {} /\ Dues # {}
  THEN CHOOSE d \in Dues : \A e \in Dues : d <= e
  ELSE TickMs

\* Time passes: no timer is due, none becomes overdue, and no request has
\* been out for MaxLatency.
AdvanceTime ==
  /\ Dues # {} \/ requests # {}
  /\ TimeStep > 0
  /\ \A d \in Dues : d >= TimeStep
  /\ \A r \in requests : r.age < MaxLatency
  /\ progressInterval' = { d - TimeStep : d \in progressInterval }
  /\ stageIntervals' = { [t EXCEPT !.due = @ - TimeStep] : t \in stageIntervals }
  /\ submitTimeouts' = { [t EXCEPT !.due = @ - TimeStep] : t \in submitTimeouts }
  /\ requests' = { [r EXCEPT !.age = @ + 1] : r \in requests }
  /\ elapsed' = elapsed + TimeStep
  /\ lastOp' = "time"
  /\ UNCHANGED << formData, isLoading, error, result, loadingStage,
                  loadingProgress, mounted, nAccepted, sentLog, ticks,
                  lastSuccess >>

\* ------------------------------------------------------ the specification
Init ==
  /\ formData = [pdfDeckLink |-> "", website |-> ""]
  /\ isLoading = FALSE
  /\ error = Null
  /\ result = Null
  /\ loadingStage = 0
  /\ loadingProgress = 0
  /\ mounted = TRUE
  /\ progressInterval = {}
  /\ stageIntervals = {}
  /\ submitTimeouts = {}
  /\ requests = {}
  /\ nAccepted = 0
  /\ sentLog = << >>
  /\ elapsed = 0
  /\ ticks = 0
  /\ lastSuccess = Null
  /\ lastOp = "init"

Next ==
  \/ \E name \in {"pdfDeckLink", "website"}, value \in FieldValues :
       handleChange(name, value)
  \/ handleSubmit
  \/ \E t \in submitTimeouts : SubmitTimeoutFires(t)
  \/ \E r \in requests, response \in Responses : FetchSettles(r, response)
  \/ ProgressTick
  \/ \E t \in stageIntervals : StageTimeoutFires(t)
  \/ Unmount
  \/ AdvanceTime

Spec == Init /\ [][Next]_vars

\* The host runs a callback whose timer is due, time passes, and the webhook
\* settles every request it was sent.
FairSpec ==
  /\ Spec
  /\ WF_vars(AdvanceTime)
  /\ WF_vars(ProgressTick)
  /\ WF_vars(\E t \in stageIntervals : StageTimeoutFires(t))
  /\ WF_vars(\E t \in submitTimeouts : SubmitTimeoutFires(t))
  /\ WF_vars(\E r \in requests, response \in Responses : FetchSettles(r, response))

\* ------------------------------------------------------------ the claims
Fields == {"pdfDeckLink", "website"}

\* C1: the request to the webhook is issued while the 40-second animation
\* is still running, that is, before the animation has run its full budget:
\* with the component mounted, every request is sent less than totalDuration
\* after its submission was accepted.
C1_RequestIssuedDuringAnimation ==
  mounted => \A r \in requests : r.sentAt < totalDuration

\* C2: once the component has unmounted, no timer the component scheduled
\* is still pending: neither the progress interval, nor a stage timeout, nor
\* the delay timeout of a submission.
C2_NoTimerPendingAfterUnmount ==
  ~mounted => /\ progressInterval = {}
              /\ stageIntervals = {}
              /\ submitTimeouts = {}

\* C3: handleSubmit accepts the submission (sets isLoading and schedules the
\* call) if and only if one of the two fields is non-empty; with both empty
\* it sets error to the validation message, leaves isLoading false, sends
\* and schedules nothing and leaves result, loadingStage and loadingProgress
\* as they were.
C3_SubmitAcceptedIffNonEmpty ==
  [][ lastOp' = "handleSubmit" =>
        LET empty == formData.pdfDeckLink = "" /\ formData.website = ""
            accepted == isLoading' /\ submitTimeouts' # submitTimeouts
        IN /\ accepted <=> ~empty
           /\ empty => /\ error' = ValidationMessage
                       /\ ~isLoading'
                       /\ sentLog' = sentLog
                       /\ requests' = requests
                       /\ submitTimeouts' = submitTimeouts
                       /\ result' = result
                       /\ loadingStage' = loadingStage
                       /\ loadingProgress' = loadingProgress ]_vars

C3_Witness ==
  /\ lastOp = "handleSubmit"
  /\ error = ValidationMessage
  /\ ~isLoading
  /\ result # Null
  /\ Len(sentLog) = 1

\* C4: after a call that failed, whether by a network error, a non-OK status
\* or an unparsable body, error is the generic failure message, isLoading is
\* false, and nothing is pending that would send another request; no more
\* requests have been sent than submissions accepted.
C4_FailureGenericMessageNoRecovery ==
  /\ lastOp = "fetchFailed" => /\ error = FailureMessage
                               /\ ~isLoading
                               /\ requests = {}
                               /\ submitTimeouts = {}
  /\ Len(sentLog) <= nAccepted

C4_Witness ==
  /\ lastOp = "fetchFailed"
  /\ error = FailureMessage
  /\ mounted
  /\ Len(sentLog) = 1
  /\ nAccepted = 1

\* C5: every accepted submission has sent exactly one request or still has
\* its one delay timeout pending, and that timeout is never pending for more
\* than the delay; a submission equal to an earlier one sends a request of
\* its own.
C5_OneRequestPerSubmission ==
  /\ Len(sentLog) + Cardinality(submitTimeouts) = nAccepted
  /\ submitTimeouts # {} => elapsed <= SubmitDelay
  /\ \A t \in submitTimeouts : t.id = nAccepted

C5_Witness ==
  /\ Len(sentLog) = 2
  /\ sentLog[1] = sentLog[2]
  /\ lastOp = "submitTimeout"
  /\ mounted

\* C6: result is null or the report of the most recent successful call, and
\* only the step in which a call succeeds changes it.
C6_ResultOnlyFromSuccess ==
  /\ [](result = lastSuccess)
  /\ [][ result' # result => lastOp' = "fetchSucceeded" ]_vars

C6_Witness ==
  /\ isLoading
  /\ result \in Reports
  /\ loadingStage = 3
  /\ nAccepted = 2
  /\ error = Null

\* C7: while loading, loadingProgress after k callbacks of the interval is
\* min(k / 4, 100); it does not decrease while loading, never exceeds 100,
\* and is 100 only from the 400th callback on.
C7_LinearProgress ==
  /\ [](isLoading => 4 * loadingProgress = ProgressDenominator * Min(ticks, 400))
  /\ [](loadingProgress <= 100 * ProgressDenominator)
  /\ [](isLoading /\ loadingProgress = 100 * ProgressDenominator => ticks >= 400)
  /\ [][ isLoading /\ isLoading' => loadingProgress' >= loadingProgress ]_vars

C7_Witness ==
  /\ isLoading
  /\ ticks = 401
  /\ loadingProgress = 100 * ProgressDenominator

C8_StageTimes == <<5000, 12000, 18000, 26000, 33000>>

\* C8: loadingStage stays within 0..5, where analysisStages has a caption;
\* while loading it changes only from i - 1 to i, and does so at 5, 12, 18,
\* 26 and 33 seconds after loading began: before that time the stage is
\* below i and after it, with the component mounted, it is at least i.
C8_StagesInOrder ==
  /\ [](loadingStage \in 0 .. 5 /\ loadingStage + 1 \in DOMAIN analysisStages)
  /\ [][ isLoading /\ isLoading' /\ loadingStage' # loadingStage =>
           /\ loadingStage' = loadingStage + 1
           /\ elapsed = C8_StageTimes[loadingStage'] ]_vars
  /\ [](isLoading =>
          \A i \in 1 .. 5 :
            /\ elapsed < C8_StageTimes[i] => loadingStage < i
            /\ mounted /\ elapsed > C8_StageTimes[i] => loadingStage >= i)

C8_Witness ==
  /\ isLoading
  /\ mounted
  /\ loadingStage = 5
  /\ elapsed = 40000
  /\ requests # {}

\* C9: the body of a request in flight has, for each field, the value the
\* field had when the form was submitted if that value is non-empty, and no
\* such property if it is empty.  (formData does not change between the
\* submission and the response, so it still is the submitted value.)
C9_BodyCarriesNonEmptyFields ==
  \A r \in requests : \A f \in Fields :
    IF formData[f] = ""
    THEN f \notin DOMAIN r.body
    ELSE f \in DOMAIN r.body /\ r.body[f] = formData[f]

C9_Witness ==
  \E r \in requests : DOMAIN r.body = {"website"} /\ r.body["website"] = "a"

\* C10: while isLoading is true no step changes formData or accepts a
\* submission, and at no time is more than one delay timeout or request
\* pending.
C10_OneAnalysisAtATime ==
  /\ [][ isLoading => formData' = formData /\ nAccepted' = nAccepted ]_vars
  /\ [](Cardinality(submitTimeouts) + Cardinality(requests) <= 1)

C10_Witness ==
  /\ isLoading
  /\ mounted
  /\ requests # {}
  /\ nAccepted = 2
  /\ formData.pdfDeckLink = "a"
  /\ formData.website = "a"

\* C11: with the component mounted, loading that has begun ends (or the
\* component unmounts): while isLoading holds the delay timeout or the
\* request of the submission is pending, and isLoading eventually becomes
\* false.  In the step in which it becomes false either the call succeeded,
\* result is its response and error is null, or error is the generic
\* failure message and result is what it was; never both.
C11_LoadingEnds ==
  /\ (isLoading /\ mounted) ~> (~isLoading \/ ~mounted)
  /\ [](isLoading => submitTimeouts # {} \/ requests # {})
  /\ [][ isLoading /\ ~isLoading' =>
           LET succeeded == /\ lastOp' = "fetchSucceeded"
                            /\ result' = lastSuccess'
                            /\ result' \in Reports
                            /\ error' = Null
               failed == /\ lastOp' = "fetchFailed"
                         /\ error' = FailureMessage
                         /\ result' = result
           IN (succeeded \/ failed) /\ ~(succeeded /\ failed) ]_vars

C11_Witness ==
  /\ ~isLoading
  /\ mounted
  /\ lastOp = "fetchFailed"
  /\ error = FailureMessage
  /\ result \in Reports
  /\ nAccepted = 2
  /\ Len(sentLog) = 2

\* C12: with the component mounted and isLoading false, no progress interval
\* and no stage timeout is pending and loadingStage and loadingProgress are
\* 0; right after a submission is accepted they are still 0 and the timers
\* pending are the ones of this run; while loading, every pending stage
\* timeout is one of this run, due at its time after this loading began.
C12_RunStartsFromBeginning ==
  /\ mounted /\ ~isLoading => /\ progressInterval = {}
                              /\ stageIntervals = {}
                              /\ loadingStage = 0
                              /\ loadingProgress = 0
  /\ lastOp = "handleSubmit" /\ isLoading =>
       /\ loadingStage = 0
       /\ loadingProgress = 0
       /\ progressInterval = {100}
       /\ Cardinality(stageIntervals) = 5
  /\ isLoading =>
       /\ Cardinality(progressInterval) <= 1
       /\ \A d \in progressInterval : d <= 100
       /\ \A t \in stageIntervals :
            /\ t.index \in 1 .. 5
            /\ t.due = C8_StageTimes[t.index] - elapsed

C12_Witness ==
  /\ lastOp = "handleSubmit"
  /\ isLoading
  /\ nAccepted = 2
  /\ result \in Reports
  /\ loadingStage = 0
  /\ loadingProgress = 0
  /\ Cardinality(stageIntervals) = 5
====
